---- MODULE Spec2Model ----
(***************************************************************************)
(* Outreach workflow of reachout-bot: ReachOutWorkflow (backend) driving   *)
(* the persistence store, the mail transport and the generation service.   *)
(* Identifiers produced by uuidv4() are modelled as the next unused index. *)
(* Timestamps are integers; "now" is the wall clock read by new Date().    *)
(* Audit timestamps that no operation reads back (createdAt, updatedAt,    *)
(* sentAt, completedAt, ...) are kept as the token Stamp.                  *)
(***************************************************************************)
EXTENDS Integers, Sequences, FiniteSets, TLC

\* ---- bounds of the model ------------------------------------------------
MaxEmails == 1
MaxWorkflows == 1
MaxOrgs == 1
MaxApprovals == 1
MaxTime == 1
MaxCalls == 5
MaxContacts == 2
MaxScript == 4
MaxRegistry == 4
MaxBrief == 5
MaxSegments == 4
MaxCallers == 2

EmailIds == 1..MaxEmails
WorkflowIds == 1..MaxWorkflows
OrgIds == 1..MaxOrgs
ApprovalIds == 1..MaxApprovals
CampaignIds == {1}
\* ids a caller may name: those of stored e-mails and one that names none
ResourceIds == 1..(MaxEmails + 1)
ContactIds == 1..MaxContacts
Callers == 1..MaxCallers

VARIABLES
  workflows,        \* mockDatabase.workflows       : id -> WorkflowState | None
  ngoProfiles,      \* mockDatabase.ngoProfiles     : id -> NGOProfile | None
  emails,           \* mockDatabase.emails          : id -> DraftEmail | None
  approvals,        \* mockDatabase.approvals       : id -> UserApproval | None
  idempotencyKeys,  \* mockDatabase.idempotencyKeys : "email-send-"+id -> key | None
  sentEmails,       \* mockDatabase.sentEmails, counted per draft email
  now,              \* wall clock
  transportCalls,   \* history: invocations of sendApprovedEmail per draft email
  sendCalls,        \* history: sendEmailWithApproval calls per email id
  allValid,         \* history: every send call for the id carried a valid matching approval
  prevSendFailed,   \* history: the latest send call for the id hit a transport failure
  calls,            \* number of operations performed so far
  lastCall,         \* the latest operation: its arguments and what it returned
  contacts,         \* mockDatabase.contacts        : id -> HubSpotContact | None
  contactCalls,     \* createContactIfNotExists calls in flight, per caller
  senders,          \* sendEmailWithApproval calls in flight, per caller
  registry,         \* LOCAL_NGO_DATABASE, in insertion order
  scores,           \* relevance score of each registry entry for the brief
  results,          \* what searchNGOs returned
  brief,            \* the brief argument: [text |-> characters], or Undefined
  mentions,         \* the terms the text handed to calculateGeographyMatch contains
  geography,        \* the geography handed to calculateGeographyMatch
  geographyScore,   \* what calculateGeographyMatch returned
  processed,        \* what BriefProcessor.processBrief returned
  segments,         \* the TextSegment list handed to analyzeStructure
  structure,        \* what analyzeStructure returned
  script,           \* two-run comparison: the operations of the first run
  run,              \* two-run comparison: the run in progress
  obs1,             \* two-run comparison: what the first run showed, per step
  obs2              \* two-run comparison: what the second run showed, per step

vars == <<workflows, ngoProfiles, emails, approvals, idempotencyKeys, sentEmails,
          now, transportCalls, sendCalls, allValid, prevSendFailed, calls, lastCall,
          contacts, contactCalls, senders, registry, scores, results, brief, processed, segments, structure,
          mentions, geography, geographyScore, script, run, obs1, obs2>>

\* ---- JavaScript values ----------------------------------------------------
\* A JS object is a function from its own property names to values;
\* `f in obj` is membership in its DOMAIN.
None == [none |-> TRUE]                \* null returned by a store read
Undefined == [undefined |-> TRUE]      \* the value undefined passed as an argument
NaT == 0 - 1                           \* an Invalid Date (getTime() is NaN)
Stamp == "ts"                          \* new Date().toISOString() kept for audit only

Has(obj, f) == f \in DOMAIN obj
Restrict(obj, D) == [f \in D |-> obj[f]]

\* new Date(obj.f): an absent property gives an Invalid Date
DateOf(obj, f) == IF Has(obj, f) THEN obj[f] ELSE NaT
\* a > b on Dates: every comparison with an Invalid Date is false
DateGT(a, b) == a # NaT /\ b # NaT /\ a > b

\* ---- e-mail addresses as character sequences ----------------------------
GoodEmail == <<"a", "@", "b", ".", "c">>
NoAtEmail == <<"a", "b">>
EmptyEmail == <<>>

\* /^[^\s@]+@[^\s@]+\.[^\s@]+$/
isValidEmail(s) ==
  \E i \in 1..Len(s), j \in 1..Len(s) :
    /\ s[i] = "@" /\ s[j] = "."
    /\ i > 1 /\ j > i + 1 /\ j < Len(s)
    /\ \A k \in 1..Len(s) : (k # i => s[k] # "@") /\ s[k] # " "

\* ---- inputs ---------------------------------------------------------------
\* NGOProfile objects handed to initiateOutreach / saveNGOProfile; id 0 and
\* name "" stand for an empty or missing value (both falsy).
ValidOrg(i) == [id |-> i, name |-> "NGO", email |-> GoodEmail, riskScore |-> 2]

ProfileInputs ==
  UNION {{ValidOrg(i), [ValidOrg(i) EXCEPT !.email = EmptyEmail],
          [ValidOrg(i) EXCEPT !.email = NoAtEmail]} : i \in OrgIds}

OrgInputs ==
  ProfileInputs \cup {ValidOrg(0), [ValidOrg(1) EXCEPT !.name = ""],
                      Restrict(ValidOrg(1), {"id", "name", "riskScore"})}

ApprovalFields == {"id", "resourceType", "resourceId", "approvedBy", "approvalText",
                   "approvedAt", "expiresAt"}

\* an approval of e-mail e carrying every required field
EmailApproval(i, e, at) ==
  [id |-> i, resourceType |-> "email", resourceId |-> e, approvedBy |-> "user",
   approvalText |-> "ok", approvedAt |-> at]

WithExpiry(a, exp) == [f \in DOMAIN a \cup {"expiresAt"} |->
                        IF f = "expiresAt" THEN exp ELSE a[f]]

\* approved at 0 without expiry, approved at 0 and expiring at 0, approved at MaxTime
WellFormedApprovals ==
  UNION {{EmailApproval(i, e, 0), WithExpiry(EmailApproval(i, e, 0), 0),
          EmailApproval(i, e, MaxTime)} : i \in ApprovalIds, e \in ResourceIds}

\* {} is the empty object; Undefined is a call without an approval; an
\* expiresAt of NaT is a string that new Date cannot parse
ApprovalInputs ==
  WellFormedApprovals
  \cup {[EmailApproval(1, 1, 0) EXCEPT !.resourceType = t] : t \in {"campaign", "bogus", ""}}
  \cup {Restrict(EmailApproval(1, 1, 0), ApprovalFields \ {"expiresAt", f}) :
          f \in {"id", "approvedBy"}}
  \cup {Restrict(EmailApproval(1, 1, 0), ApprovalFields \ {"expiresAt", "approvedAt"}),
        WithExpiry(EmailApproval(1, 1, 0), NaT)}
  \cup {Restrict(EmailApproval(1, 1, 0), {}), Undefined}

\* ---- generation-service output (untrusted) --------------------------------
\* Values carry their typeof tag; confidence is in hundredths (85 is 0.85).
Str(x) == [t |-> "string", s |-> x]
Num(x) == [t |-> "number", n |-> x]
Arr(x) == [t |-> "array", items |-> x]

typeof(obj, f) == IF Has(obj, f) THEN obj[f].t ELSE "undefined"

AIRequired == <<"subject", "body", "tone", "targetNGOName", "personalizationNotes",
                "confidence", "validationErrors">>
AIFields == {AIRequired[i] : i \in 1..Len(AIRequired)}
Tones == {"professional", "friendly", "formal", "casual"}

AIValid ==
  [subject |-> Str("Partnership Opportunity"), body |-> Str("Dear Team"),
   tone |-> Str("professional"), targetNGOName |-> Str("NGO"),
   personalizationNotes |-> Arr(<<Str("note")>>), confidence |-> Num(85),
   validationErrors |-> Arr(<<>>)]

AIDataInputs ==
  {AIValid}
  \cup {Restrict(AIValid, AIFields \ {f}) : f \in AIFields}
  \cup {[AIValid EXCEPT !.tone = v] : v \in {Str("aggressive"), Num(1)}}
  \cup {[AIValid EXCEPT !.confidence = v] :
          v \in {Num(100), Num(150), Num(0 - 1), Str("high")}}
  \cup {[AIValid EXCEPT !.personalizationNotes = v] :
          v \in {Arr(<<Str("note"), Num(1)>>)}}
  \cup {[AIValid EXCEPT !.validationErrors = v] : v \in {Arr(<<Num(1)>>)}}
  \cup {Undefined}

AIResults ==
  {[success |-> FALSE, error |-> "generation error"]}
  \cup {[success |-> TRUE, data |-> d] : d \in AIDataInputs}

\* stands for "call the repository's MockAIService"
MockAI == [mock |-> TRUE]

\* ---- results ----------------------------------------------------------------
Failure(err) == [success |-> FALSE, error |-> err]
Thrown == [thrown |-> "TypeError"]

\* ---- fresh identifiers (uuidv4) ---------------------------------------------
Unused(store) == {i \in DOMAIN store : store[i] = None}
Fresh(store) == CHOOSE i \in Unused(store) : \A j \in Unused(store) : i <= j

\* ---- MockSupabaseService.saveNGOProfile -----------------------------------
saveNGOProfile(profile) ==
  /\ calls < MaxCalls
  /\ ngoProfiles' = [ngoProfiles EXCEPT ![profile.id] = profile]
  /\ calls' = calls + 1
  /\ lastCall' = [op |-> "saveNGOProfile", result |-> [success |-> TRUE]]
  /\ UNCHANGED <<workflows, emails, approvals, idempotencyKeys, sentEmails, now,
                 transportCalls, sendCalls, allValid, prevSendFailed>>

\* !ngoProfile.field: the field is missing or holds an empty value
Falsy(obj, f) ==
  \/ ~Has(obj, f)
  \/ CASE f = "id" -> obj[f] = 0            \* identifiers: 0 stands for ""
        [] f = "email" -> obj[f] = <<>>
        [] OTHER -> obj[f] = ""

\* MockSupabaseService.saveWorkflowState; ok: whether it reports success
saveWorkflowState(state, ok) ==
  IF ok THEN [workflows EXCEPT ![state.id] = state] ELSE workflows

\* ---- ReachOutWorkflow.initiateOutreach ------------------------------------
\* Variant: the result of saveWorkflowState is not examined.
InitiateIgnoringSaveResult(ngoProfile, saveOk) ==
  IF Falsy(ngoProfile, "id") \/ Falsy(ngoProfile, "email") \/ Falsy(ngoProfile, "name")
  THEN "invalid_profile"
  ELSE "created"

\* Variant: the name of the organisation is not required.
InitiateWithoutNameCheck(ngoProfile, saveOk) ==
  IF Falsy(ngoProfile, "id") \/ Falsy(ngoProfile, "email")
  THEN "invalid_profile"
  ELSE IF ~saveOk THEN "save_failed"
  ELSE "created"

\* Variant: an organisation with a high risk score is refused.
InitiateGatedByRisk(ngoProfile, saveOk) ==
  IF Falsy(ngoProfile, "id") \/ Falsy(ngoProfile, "email") \/ Falsy(ngoProfile, "name")
  THEN "invalid_profile"
  ELSE IF Has(ngoProfile, "riskScore") /\ ngoProfile.riskScore > 90
       THEN "invalid_profile"
  ELSE IF ~saveOk THEN "save_failed"
  ELSE "created"

\* saveOk: whether saveWorkflowState reports success
initiateOutreachPath(ngoProfile, saveOk) ==
  IF Falsy(ngoProfile, "id") \/ Falsy(ngoProfile, "email") \/ Falsy(ngoProfile, "name")
  THEN "invalid_profile"
  ELSE IF ~saveOk THEN "save_failed"
  ELSE "created"

initiateOutreach(campaignId, ngoProfile, saveOk) ==
  LET path == initiateOutreachPath(ngoProfile, saveOk)
      workflowId == Fresh(workflows)
      workflowState ==
        [id |-> workflowId, campaignId |-> campaignId, ngoId |-> ngoProfile.id,
         stage |-> "initial_research",
         data |-> [ngoProfile |-> ngoProfile, initiatedAt |-> Stamp]]
  IN
  /\ calls < MaxCalls
  /\ path # "invalid_profile" => Unused(workflows) # {}
  /\ workflows' = IF path # "invalid_profile"
                  THEN saveWorkflowState(workflowState, saveOk)
                  ELSE workflows
  /\ calls' = calls + 1
  /\ lastCall' =
       [op |-> "initiateOutreach", campaignId |-> campaignId,
        ngoProfile |-> ngoProfile, path |-> path,
        result |-> CASE path = "invalid_profile" ->
                          Failure("Invalid NGO profile: missing required fields")
                     [] path = "save_failed" -> Failure("store error")
                     [] OTHER -> [success |-> TRUE, workflowId |-> workflowId]]
  /\ UNCHANGED <<ngoProfiles, emails, approvals, idempotencyKeys, sentEmails, now,
                 transportCalls, sendCalls, allValid, prevSendFailed>>

\* ---- store reads ------------------------------------------------------------
\* Map.get(id) || null
Get(store, id) == IF id \in DOMAIN store THEN store[id] ELSE None

\* { ...old, ...new }
Spread(old, new) ==
  [f \in DOMAIN old \cup DOMAIN new |-> IF f \in DOMAIN new THEN new[f] ELSE old[f]]

ErrorsWhen(cond, field, type) ==
  IF cond THEN << [field |-> <<field>>, type |-> type] >> ELSE << >>

MissingErrors(obj, required) ==
  LET absent == SelectSeq(required, LAMBDA f : ~Has(obj, f))
  IN [i \in 1..Len(absent) |-> [field |-> <<absent[i]>>, type |-> "missing_required"]]

\* one error per element that is not a string, in index order
ItemErrors(field, items) ==
  LET idx == [i \in 1..Len(items) |-> i]
      bad == SelectSeq(idx, LAMBDA i : items[i].t # "string")
  IN [k \in 1..Len(bad) |-> [field |-> <<field, bad[k] - 1>>, type |-> "type_mismatch"]]

ArrayErrors(obj, field) ==
  IF typeof(obj, field) # "array"
  THEN <<[field |-> <<field>>, type |-> "type_mismatch"]>>
  ELSE ItemErrors(field, obj[field].items)

\* ---- validation.validateAIGeneratedEmail ----------------------------------
\* Variant: confidence is held to its type only, not to its range.
ValidateWithoutConfidenceRange(data) ==
  IF data = Undefined
  THEN [valid |-> FALSE, errors |-> <<[field |-> <<"root">>, type |-> "type_mismatch"]>>]
  ELSE
    LET errors ==
          MissingErrors(data, AIRequired)
          \o ErrorsWhen(typeof(data, "subject") # "string", "subject", "type_mismatch")
          \o ErrorsWhen(typeof(data, "body") # "string", "body", "type_mismatch")
          \o ErrorsWhen(typeof(data, "tone") # "string" \/ data.tone.s \notin Tones,
                        "tone", "constraint_violation")
          \o ErrorsWhen(typeof(data, "targetNGOName") # "string", "targetNGOName",
                        "type_mismatch")
          \o ArrayErrors(data, "personalizationNotes")
          \o ErrorsWhen(typeof(data, "confidence") # "number",
                        "confidence", "constraint_violation")
          \o ArrayErrors(data, "validationErrors")
    IN [valid |-> errors = <<>>, errors |-> errors]

validateAIGeneratedEmail(data) ==
  IF data = Undefined
  THEN [valid |-> FALSE, errors |-> <<[field |-> <<"root">>, type |-> "type_mismatch"]>>]
  ELSE
    LET errors ==
          MissingErrors(data, AIRequired)
          \o ErrorsWhen(typeof(data, "subject") # "string", "subject", "type_mismatch")
          \o ErrorsWhen(typeof(data, "body") # "string", "body", "type_mismatch")
          \o ErrorsWhen(typeof(data, "tone") # "string" \/ data.tone.s \notin Tones,
                        "tone", "constraint_violation")
          \o ErrorsWhen(typeof(data, "targetNGOName") # "string", "targetNGOName",
                        "type_mismatch")
          \o ArrayErrors(data, "personalizationNotes")
          \o ErrorsWhen(\/ typeof(data, "confidence") # "number"
                        \/ data.confidence.n < 0
                        \/ data.confidence.n > 100,
                        "confidence", "constraint_violation")
          \o ArrayErrors(data, "validationErrors")
    IN [valid |-> errors = <<>>, errors |-> errors]

\* ---- validation.validateDraftEmail ----------------------------------------
DraftRequired == <<"id", "campaignId", "ngoId", "status", "subject", "body",
                   "recipientEmail", "createdAt", "updatedAt">>

validateDraftEmail(data) ==
  LET errors ==
        MissingErrors(data, DraftRequired)
        \o ErrorsWhen(data.recipientEmail # <<>> /\ ~isValidEmail(data.recipientEmail),
                      "recipientEmail", "format_invalid")
        \o ErrorsWhen(data.status \notin {"draft", "approved", "sent", "failed"},
                      "status", "constraint_violation")
  IN [valid |-> errors = <<>>, errors |-> errors]

\* ---- validation.validateUserApproval --------------------------------------
ApprovalRequired == <<"id", "resourceType", "resourceId", "approvedBy", "approvalText",
                      "approvedAt">>

validateUserApproval(data) ==
  IF data = Undefined
  THEN [valid |-> FALSE, errors |-> <<[field |-> <<"root">>, type |-> "type_mismatch"]>>]
  ELSE
    LET errors ==
          MissingErrors(data, ApprovalRequired)
          \o ErrorsWhen(/\ Has(data, "resourceType")
                        /\ data.resourceType # ""      \* obj.resourceType && ...
                        /\ data.resourceType \notin {"email", "campaign", "outreach_batch"},
                        "resourceType", "constraint_violation")
    IN [valid |-> errors = <<>>, errors |-> errors]

\* ---- MockAIService.generateEmail ------------------------------------------
generateEmail(ngo) ==
  [success |-> TRUE, data |-> [AIValid EXCEPT !.targetNGOName = Str(ngo.name)]]

\* ---- MockSupabaseService.updateWorkflowStage ------------------------------
\* ok: whether the store reports success; the mock fails only for an unknown id
updateWorkflowStage(stateId, newStage, data, ok) ==
  IF Get(workflows, stateId) = None \/ ~ok
  THEN workflows
  ELSE [workflows EXCEPT ![stateId] =
          [@ EXCEPT !.stage = newStage, !.data = Spread(@, data)]]

\* ---- MockSupabaseService.saveDraftEmail -----------------------------------
\* Variant: the e-mail is written although the store reports failure.
SaveDraftDespiteFailure(email, ok) == [emails EXCEPT ![email.id] = email]

\* ok: whether the store reports success; the mock always does
saveDraftEmail(email, ok) ==
  IF ok THEN [emails EXCEPT ![email.id] = email] ELSE emails

\* ---- ReachOutWorkflow.generateEmailDraft ----------------------------------
AIResultFor(ai, workflowId) ==
  IF ai = MockAI THEN generateEmail(ngoProfiles[workflows[workflowId].ngoId]) ELSE ai

\* the DraftEmail built from the validated output (index.ts, "Create draft email")
\* Variant: the new draft is stored with status "sent".
NewDraftAlreadySent(workflowId, ai, draftEmailId) ==
  [id |-> draftEmailId, campaignId |-> workflows[workflowId].campaignId,
   ngoId |-> workflows[workflowId].ngoId, status |-> "sent",
   subject |-> AIResultFor(ai, workflowId).data.subject.s,
   body |-> AIResultFor(ai, workflowId).data.body.s,
   recipientEmail |-> ngoProfiles[workflows[workflowId].ngoId].email,
   createdAt |-> Stamp, updatedAt |-> Stamp]

NewDraftEmail(workflowId, ai, draftEmailId) ==
  [id |-> draftEmailId, campaignId |-> workflows[workflowId].campaignId,
   ngoId |-> workflows[workflowId].ngoId, status |-> "draft",
   subject |-> AIResultFor(ai, workflowId).data.subject.s,
   body |-> AIResultFor(ai, workflowId).data.body.s,
   recipientEmail |-> ngoProfiles[workflows[workflowId].ngoId].email,
   createdAt |-> Stamp, updatedAt |-> Stamp]

generateEmailDraftPath(workflowId, ai, saveOk) ==
  IF Get(workflows, workflowId) = None THEN "workflow_not_found"
  ELSE IF Get(ngoProfiles, workflows[workflowId].ngoId) = None THEN "ngo_not_found"
  ELSE IF ~AIResultFor(ai, workflowId).success THEN "ai_failed"
  ELSE IF ~validateAIGeneratedEmail(AIResultFor(ai, workflowId).data).valid
       THEN "ai_invalid"
  ELSE IF ~validateDraftEmail(NewDraftEmail(workflowId, ai, 0)).valid
       THEN "draft_invalid"
  ELSE IF ~saveOk THEN "save_failed"
  ELSE "created"

generateEmailDraft(workflowId, ai, saveOk, stageOk) ==
  LET path == generateEmailDraftPath(workflowId, ai, saveOk)
      aiResult == AIResultFor(ai, workflowId)
      generatedEmail == aiResult.data
      draftEmailId == Fresh(emails)
      draftEmail == NewDraftEmail(workflowId, ai, draftEmailId)
  IN
  /\ calls < MaxCalls
  /\ path \in {"created", "save_failed"} => Unused(emails) # {}
  /\ emails' = IF path \in {"created", "save_failed"}
               THEN saveDraftEmail(draftEmail, saveOk)
               ELSE emails
  /\ workflows' = IF path = "created"
                  THEN updateWorkflowStage(workflowId, "draft_generation",
                         [draftEmailId |-> draftEmailId, generatedAt |-> Stamp], stageOk)
                  ELSE workflows
  /\ calls' = calls + 1
  /\ lastCall' =
       [op |-> "generateEmailDraft", workflowId |-> workflowId, path |-> path,
        ai |-> IF path \in {"workflow_not_found", "ngo_not_found"} THEN None ELSE aiResult,
        result |->
          CASE path = "workflow_not_found" -> Failure("Workflow not found")
            [] path = "ngo_not_found" -> Failure("NGO profile not found")
            [] path = "ai_failed" -> Failure(aiResult.error)
            [] path = "ai_invalid" ->
                 [success |-> FALSE, error |-> "AI output validation failed",
                  errors |-> validateAIGeneratedEmail(generatedEmail).errors]
            [] path = "draft_invalid" ->
                 [success |-> FALSE, error |-> "Draft email validation failed",
                  errors |-> validateDraftEmail(NewDraftEmail(workflowId, ai, 0)).errors]
            [] path = "save_failed" -> Failure("store error")
            [] OTHER -> [success |-> TRUE, draftEmail |-> draftEmail]]
  /\ UNCHANGED <<ngoProfiles, approvals, idempotencyKeys, sentEmails, now,
                 transportCalls, sendCalls, allValid, prevSendFailed>>

\* ---- ReachOutWorkflow.recordApproval --------------------------------------
\* saveOk: whether saveUserApproval reports success
recordApprovalPath(approval, saveOk) ==
  IF approval = Undefined THEN "throw"          \* `${approval.id}` in the first log line
  ELSE IF ~validateUserApproval(approval).valid THEN "invalid"
  ELSE IF ~saveOk THEN "save_failed"
  ELSE "recorded"

recordApproval(approval, saveOk) ==
  LET path == recordApprovalPath(approval, saveOk)
  IN
  /\ calls < MaxCalls
  /\ approvals' = IF path = "recorded"
                  THEN [approvals EXCEPT ![approval.id] = approval]
                  ELSE approvals
  /\ calls' = calls + 1
  /\ lastCall' =
       [op |-> "recordApproval", approval |-> approval, path |-> path,
        result |->
          CASE path = "throw" -> Thrown
            [] path = "invalid" ->
                 [success |-> FALSE, error |-> "Approval validation failed",
                  errors |-> validateUserApproval(approval).errors]
            [] path = "save_failed" -> Failure("store error")
            [] OTHER -> [success |-> TRUE, approvalId |-> approval.id]]
  /\ UNCHANGED <<workflows, ngoProfiles, emails, idempotencyKeys, sentEmails, now,
                 transportCalls, sendCalls, allValid, prevSendFailed>>

\* ---- ReachOutWorkflow.sendEmailWithApproval -------------------------------
\* Variant: neither the status check nor the idempotency-key check is made.
PathWithoutReplayGuard(emailId, approval, sendOk) ==
  IF Get(emails, emailId) = None THEN "not_found"
  ELSE IF approval = Undefined THEN "throw"
  ELSE IF \/ ~Has(approval, "id")
          \/ ~Has(approval, "resourceType") \/ approval.resourceType # "email"
          \/ ~Has(approval, "resourceId") \/ approval.resourceId # emailId
       THEN "invalid_approval"
  ELSE IF DateGT(DateOf(approval, "approvedAt"), now) THEN "not_yet_valid"
  ELSE IF Has(approval, "expiresAt") /\ DateGT(now, DateOf(approval, "expiresAt"))
       THEN "expired"
  ELSE IF ~sendOk THEN "send_failed"
  ELSE "dispatched"

\* Variant: the approval is examined before the status of the e-mail.
PathApprovalBeforeStatus(emailId, approval, sendOk) ==
  IF Get(emails, emailId) = None THEN "not_found"
  ELSE IF approval = Undefined THEN "throw"
  ELSE IF \/ ~Has(approval, "id")
          \/ ~Has(approval, "resourceType") \/ approval.resourceType # "email"
          \/ ~Has(approval, "resourceId") \/ approval.resourceId # emailId
       THEN "invalid_approval"
  ELSE IF DateGT(DateOf(approval, "approvedAt"), now) THEN "not_yet_valid"
  ELSE IF Has(approval, "expiresAt") /\ DateGT(now, DateOf(approval, "expiresAt"))
       THEN "expired"
  ELSE IF emails[emailId].status = "sent" THEN "already_sent"
  ELSE IF /\ idempotencyKeys[emailId] # None
          /\ Has(idempotencyKeys[emailId], "completedAt")
       THEN "idempotent"
  ELSE IF ~sendOk THEN "send_failed"
  ELSE "dispatched"

\* Variant: the validity window of the approval is not examined.
PathWithoutWindowCheck(emailId, approval, sendOk) ==
  IF Get(emails, emailId) = None THEN "not_found"
  ELSE IF emails[emailId].status = "sent" THEN "already_sent"
  ELSE IF approval = Undefined THEN "throw"
  ELSE IF \/ ~Has(approval, "id")
          \/ ~Has(approval, "resourceType") \/ approval.resourceType # "email"
          \/ ~Has(approval, "resourceId") \/ approval.resourceId # emailId
       THEN "invalid_approval"
  ELSE IF /\ idempotencyKeys[emailId] # None
          /\ Has(idempotencyKeys[emailId], "completedAt")
       THEN "idempotent"
  ELSE IF ~sendOk THEN "send_failed"
  ELSE "dispatched"

\* sendOk: whether the mail transport reports success
sendEmailWithApprovalPath(emailId, approval, sendOk) ==
  IF Get(emails, emailId) = None THEN "not_found"
  ELSE IF emails[emailId].status = "sent" THEN "already_sent"
  ELSE IF approval = Undefined THEN "throw"     \* approval.id of undefined
  ELSE IF \/ ~Has(approval, "id")
          \/ ~Has(approval, "resourceType") \/ approval.resourceType # "email"
          \/ ~Has(approval, "resourceId") \/ approval.resourceId # emailId
       THEN "invalid_approval"
  ELSE IF DateGT(DateOf(approval, "approvedAt"), now) THEN "not_yet_valid"
  ELSE IF Has(approval, "expiresAt") /\ DateGT(now, DateOf(approval, "expiresAt"))
       THEN "expired"
  ELSE IF /\ idempotencyKeys[emailId] # None
          /\ Has(idempotencyKeys[emailId], "completedAt")
       THEN "idempotent"
  ELSE IF ~sendOk THEN "send_failed"
  ELSE "dispatched"

\* whether the call reaches email.sendApprovedEmail
InvokesTransport(path) == path \in {"send_failed", "dispatched"}

\* Variant: the key is also recorded when the transport reported failure.
RecordsKeyOnFailure(path) == path \in {"dispatched", "send_failed"}

\* whether the call reaches supabase.recordIdempotencyKey
RecordsKey(path) == path = "dispatched"

\* MockEmailService.sendApprovedEmail: the draft is marked sent in the store
sendApprovedEmail(emailId) ==
  [emails EXCEPT ![emailId] =
     Spread(@, [status |-> "sent", sentAt |-> Stamp])]

\* MockSupabaseService.recordIdempotencyKey; ok: whether it reports success
recordIdempotencyKey(emailId, sendResult, ok) ==
  IF ok
  THEN [idempotencyKeys EXCEPT ![emailId] =
          [key |-> <<"email-send-", emailId>>, operationType |-> "send_email",
           resourceId |-> emailId, createdAt |-> Stamp, completedAt |-> Stamp,
           result |-> sendResult]]
  ELSE idempotencyKeys

\* a UserApproval that approves this e-mail at time t (data model, UserApproval)
ApprovesAt(a, emailId, t) ==
  /\ a # Undefined /\ a # None
  /\ Has(a, "id") /\ Has(a, "resourceType") /\ Has(a, "resourceId") /\ Has(a, "approvedAt")
  /\ a.resourceType = "email" /\ a.resourceId = emailId
  /\ a.approvedAt # NaT /\ a.approvedAt <= t
  /\ Has(a, "expiresAt") => (a.expiresAt # NaT /\ t <= a.expiresAt)

sendEmailWithApproval(emailId, approval, sendOk, keyOk) ==
  LET path == sendEmailWithApprovalPath(emailId, approval, sendOk)
      sendResult ==
        [success |-> TRUE, messageId |-> <<"mock-msg-", emailId, sentEmails[emailId] + 1>>,
         sentAt |-> Stamp]
      known == Get(emails, emailId) # None
  IN
  /\ calls < MaxCalls
  /\ emails' = IF path = "dispatched" THEN sendApprovedEmail(emailId) ELSE emails
  /\ sentEmails' = IF path = "dispatched"
                   THEN [sentEmails EXCEPT ![emailId] = @ + 1] ELSE sentEmails
  /\ idempotencyKeys' = IF RecordsKey(path)
                        THEN recordIdempotencyKey(emailId, sendResult, keyOk)
                        ELSE idempotencyKeys
  /\ transportCalls' = IF InvokesTransport(path)
                       THEN [transportCalls EXCEPT ![emailId] = @ + 1]
                       ELSE transportCalls
  /\ sendCalls' = IF known THEN [sendCalls EXCEPT ![emailId] = @ + 1] ELSE sendCalls
  /\ allValid' = IF known
                 THEN [allValid EXCEPT ![emailId] = @ /\ ApprovesAt(approval, emailId, now)]
                 ELSE allValid
  /\ prevSendFailed' = IF known
                       THEN [prevSendFailed EXCEPT ![emailId] = (path = "send_failed")]
                       ELSE prevSendFailed
  /\ calls' = calls + 1
  /\ lastCall' =
       [op |-> "sendEmailWithApproval", emailId |-> emailId, approval |-> approval,
        at |-> now, path |-> path,
        statusBefore |-> IF known THEN emails[emailId].status ELSE "none",
        storeApproved |-> \E i \in ApprovalIds : ApprovesAt(approvals[i], emailId, now),
        invoked |-> InvokesTransport(path),
        afterFailure |-> known /\ prevSendFailed[emailId],
        result |->
          CASE path = "not_found" -> Failure("Draft email not found")
            [] path = "already_sent" ->
                 [success |-> TRUE, message |-> "Email already sent", emailId |-> emailId]
            [] path = "throw" -> Thrown
            [] path = "invalid_approval" -> Failure("Invalid approval for this email")
            [] path = "not_yet_valid" -> Failure("Approval is not yet valid")
            [] path = "expired" -> Failure("Approval has expired")
            [] path = "idempotent" ->
                 [success |-> TRUE, message |-> "Email already sent (idempotency)",
                  emailId |-> emailId]
            [] path = "send_failed" -> Failure("transport error")
            [] OTHER ->
                 [success |-> TRUE, emailId |-> emailId,
                  messageId |-> sendResult.messageId, sentAt |-> sendResult.sentAt]]
  /\ UNCHANGED <<workflows, ngoProfiles, approvals, now>>

\* ---- passage of time ------------------------------------------------------
Tick ==
  /\ now < MaxTime
  /\ now' = now + 1
  /\ UNCHANGED <<workflows, ngoProfiles, emails, approvals, idempotencyKeys,
                 sentEmails, transportCalls, sendCalls, allValid, prevSendFailed,
                 calls, lastCall>>

InitStores ==
  /\ workflows = [i \in WorkflowIds |-> None]
  /\ ngoProfiles = [i \in OrgIds |-> None]
  /\ emails = [i \in EmailIds |-> None]
  /\ approvals = [i \in ApprovalIds |-> None]
  /\ idempotencyKeys = [i \in EmailIds |-> None]
  /\ sentEmails = [i \in EmailIds |-> 0]
  /\ now = 0
  /\ transportCalls = [i \in EmailIds |-> 0]
  /\ sendCalls = [i \in EmailIds |-> 0]
  /\ allValid = [i \in EmailIds |-> TRUE]
  /\ prevSendFailed = [i \in EmailIds |-> FALSE]
  /\ calls = 0
  /\ lastCall = [op |-> "none"]

\* the parts of the state that take no part in a specification stay as they start
InitContacts ==
  /\ contacts = [i \in ContactIds |-> None]
  /\ contactCalls = [c \in Callers |-> [pc |-> "idle"]]
  /\ senders = [c \in Callers |-> [pc |-> "idle"]]

NotSearched ==
  [returned |-> FALSE, thrown |-> FALSE, ngos |-> <<>>, scored |-> <<>>, liveSearch |-> FALSE]

InitNoBrief == processed = None /\ segments = <<>> /\ structure = None

InitNoGeography == mentions = {} /\ geography = Undefined /\ geographyScore = None

InitNoRegistry == registry = <<>> /\ scores = <<>> /\ results = NotSearched

InitNoSearch == InitNoRegistry /\ brief = Undefined /\ InitNoBrief /\ InitNoGeography

InitOneRun == script = <<>> /\ run = 1 /\ obs1 = <<>> /\ obs2 = <<>>

StoresIdle ==
  UNCHANGED <<workflows, ngoProfiles, emails, approvals, idempotencyKeys, sentEmails,
              now, transportCalls, sendCalls, allValid, prevSendFailed, calls, lastCall>>

ContactsIdle == UNCHANGED <<contacts, contactCalls, senders>>

SearchIdle ==
  UNCHANGED <<registry, scores, results, brief, processed, segments, structure,
              mentions, geography, geographyScore>>

OneRun == UNCHANGED <<script, run, obs1, obs2>>

OthersIdle == ContactsIdle /\ SearchIdle /\ OneRun

Init == InitStores /\ InitContacts /\ InitNoSearch /\ InitOneRun

WorkflowRefs == 1..(MaxWorkflows + 1)

\* A collaborator's answer is drawn only where the call reaches it.
AIChoices(w) ==
  IF generateEmailDraftPath(w, MockAI, TRUE) \in {"workflow_not_found", "ngo_not_found"}
  THEN {MockAI} ELSE AIResults \cup {MockAI}

StoreChoices(reached) == IF reached THEN BOOLEAN ELSE {TRUE}

\* Collaborators held to their interfaces only: store writes and the mail
\* transport may report failure, the generation output is untrusted.
Next ==
  \/ \E p \in ProfileInputs : saveNGOProfile(p) /\ OthersIdle
  \/ \E c \in CampaignIds, org \in OrgInputs :
        \E ok \in StoreChoices(initiateOutreachPath(org, TRUE) = "created") :
          initiateOutreach(c, org, ok) /\ OthersIdle
  \/ \E w \in WorkflowRefs : \E ai \in AIChoices(w) :
        \E saveOk \in StoreChoices(generateEmailDraftPath(w, ai, TRUE) = "created") :
          \E stageOk \in StoreChoices(saveOk /\ generateEmailDraftPath(w, ai, TRUE) = "created") :
            generateEmailDraft(w, ai, saveOk, stageOk) /\ OthersIdle
  \/ \E a \in ApprovalInputs :
        \E ok \in StoreChoices(recordApprovalPath(a, TRUE) = "recorded") :
          recordApproval(a, ok) /\ OthersIdle
  \/ \E e \in ResourceIds, a \in ApprovalInputs :
        \E sendOk \in StoreChoices(sendEmailWithApprovalPath(e, a, TRUE) = "dispatched") :
          \E keyOk \in StoreChoices(sendOk /\ sendEmailWithApprovalPath(e, a, TRUE) = "dispatched") :
            sendEmailWithApproval(e, a, sendOk, keyOk) /\ OthersIdle
  \/ Tick /\ OthersIdle

Spec == Init /\ [][Next]_vars

\* The repository's own collaborators: MockSupabaseService, MockEmailService
\* and MockAIService, none of which reports a failure.
NextMock ==
  \/ \E p \in ProfileInputs : saveNGOProfile(p) /\ OthersIdle
  \/ \E c \in CampaignIds, org \in OrgInputs : initiateOutreach(c, org, TRUE) /\ OthersIdle
  \/ \E w \in WorkflowRefs : generateEmailDraft(w, MockAI, TRUE, TRUE) /\ OthersIdle
  \/ \E a \in ApprovalInputs : recordApproval(a, TRUE) /\ OthersIdle
  \/ \E e \in ResourceIds, a \in ApprovalInputs : sendEmailWithApproval(e, a, TRUE, TRUE) /\ OthersIdle
  \/ Tick /\ OthersIdle

SpecMock == Init /\ [][NextMock]_vars

\* ==== Properties of sending (sendEmailWithApproval) =========================

IsSend == lastCall.op = "sendEmailWithApproval"
IsFailure(r) == Has(r, "success") /\ ~r.success
IsSuccess(r) == Has(r, "success") /\ r.success
SaysAlreadySent(r) ==
  Has(r, "message") /\ r.message \in {"Email already sent", "Email already sent (idempotency)"}

\* C1: the transport is invoked for an e-mail only if, when the call began,
\* the store held a UserApproval that approves this e-mail at that time; an
\* approval present only in the call's argument is not enough.
C1_DispatchNeedsStoredApproval ==
  (IsSend /\ lastCall.invoked) => lastCall.storeApproved

\* the approval argument is mismatched, of another resource type, empty or absent
Unapproving(a, emailId) ==
  \/ a = Undefined
  \/ DOMAIN a = {}
  \/ Has(a, "resourceId") /\ a.resourceId # emailId
  \/ Has(a, "resourceType") /\ a.resourceType # "email"

\* C2: a send for a not-yet-sent e-mail whose approval names another resource
\* id, another resource type, is empty or is absent returns a failure result,
\* invokes no transport and leaves the e-mail and the idempotency keys as they were.
C2_UnapprovedSendFails ==
  [][(/\ calls' = calls + 1
      /\ lastCall'.op = "sendEmailWithApproval"
      /\ lastCall'.statusBefore = "draft"
      /\ Unapproving(lastCall'.approval, lastCall'.emailId))
     => (/\ IsFailure(lastCall'.result)
         /\ ~lastCall'.invoked
         /\ emails' = emails
         /\ idempotencyKeys' = idempotencyKeys)]_vars

\* C3: with a valid matching approval on every call, n >= 2 sends of one
\* e-mail all return success, the transport is invoked exactly once, and every
\* call after the first returns a message that contains "already sent".
C3_RepeatedSendDispatchesOnce ==
  \A e \in EmailIds :
    (sendCalls[e] >= 1 /\ allValid[e]) =>
      /\ transportCalls[e] = 1
      /\ (IsSend /\ lastCall.emailId = e) =>
            /\ IsSuccess(lastCall.result)
            /\ sendCalls[e] >= 2 => SaysAlreadySent(lastCall.result)

C3_Witness ==
  /\ IsSend /\ lastCall.emailId \in EmailIds
  /\ sendCalls[lastCall.emailId] >= 2 /\ allValid[lastCall.emailId]
  /\ SaysAlreadySent(lastCall.result)

\* C4: once the e-mail is sent, every later send returns success with an
\* "already sent" message and invokes no transport, whatever approval is
\* passed; it never returns an error.
C4_SentIsTerminal ==
  (IsSend /\ lastCall.statusBefore = "sent") =>
     /\ IsSuccess(lastCall.result)
     /\ SaysAlreadySent(lastCall.result)
     /\ ~lastCall.invoked

C4_Witness ==
  /\ IsSend /\ lastCall.statusBefore = "sent"
  /\ ~ApprovesAt(lastCall.approval, lastCall.emailId, lastCall.at)
  /\ IsSuccess(lastCall.result)

\* the approval matches the e-mail in id, resource type and resource id
Matching(a, emailId) ==
  /\ a # Undefined
  /\ Has(a, "id") /\ Has(a, "resourceType") /\ Has(a, "resourceId")
  /\ a.resourceType = "email" /\ a.resourceId = emailId

FutureDated(a, t) == Has(a, "approvedAt") /\ a.approvedAt > t
Expired(a, t) == Has(a, "expiresAt") /\ a.expiresAt # NaT /\ t > a.expiresAt

\* C5: a send of a draft e-mail with a matching approval that is expired or
\* future-dated returns a failure naming that check, invokes no transport,
\* records no idempotency key and leaves the e-mail a draft.
C5_OutOfWindowApprovalFails ==
  (/\ IsSend /\ lastCall.statusBefore = "draft"
   /\ Matching(lastCall.approval, lastCall.emailId)
   /\ FutureDated(lastCall.approval, lastCall.at) \/ Expired(lastCall.approval, lastCall.at))
  => /\ IsFailure(lastCall.result)
     /\ lastCall.result.error =
          IF FutureDated(lastCall.approval, lastCall.at)
          THEN "Approval is not yet valid" ELSE "Approval has expired"
     /\ ~lastCall.invoked
     /\ idempotencyKeys[lastCall.emailId] = None
     /\ emails[lastCall.emailId].status = "draft"

C5_WitnessExpired ==
  /\ IsSend /\ lastCall.statusBefore = "draft"
  /\ Matching(lastCall.approval, lastCall.emailId)
  /\ Expired(lastCall.approval, lastCall.at)
  /\ lastCall.result = Failure("Approval has expired")

\* C6: a send that returns success with a messageId has left in the store the
\* key "email-send-" + emailId with completedAt and the result; no success is
\* returned when the key was not persisted.
C6_SuccessImpliesKeyStored ==
  (IsSend /\ IsSuccess(lastCall.result) /\ Has(lastCall.result, "messageId")) =>
     LET k == idempotencyKeys[lastCall.emailId]
     IN /\ k # None
        /\ k.key = <<"email-send-", lastCall.emailId>>
        /\ Has(k, "completedAt")
        /\ Has(k, "result") /\ k.result.messageId = lastCall.result.messageId

\* C7: when the transport reports failure the call returns a failure carrying
\* the transport's error, no completed idempotency key is recorded and the
\* e-mail is not marked sent; the next send with a valid matching approval
\* invokes the transport again.
C7_TransportFailureAllowsRetry ==
  /\ (IsSend /\ lastCall.path = "send_failed") =>
        /\ lastCall.result = Failure("transport error")
        /\ idempotencyKeys[lastCall.emailId] = None
        /\ emails[lastCall.emailId].status # "sent"
  /\ (/\ IsSend /\ lastCall.afterFailure
      /\ ApprovesAt(lastCall.approval, lastCall.emailId, lastCall.at))
     => lastCall.invoked

C7_Witness ==
  /\ IsSend /\ lastCall.afterFailure /\ lastCall.invoked
  /\ ApprovesAt(lastCall.approval, lastCall.emailId, lastCall.at)
  /\ transportCalls[lastCall.emailId] = 2

\* ==== Properties of draft generation (generateEmailDraft) ===================

IsGenerate == lastCall.op = "generateEmailDraft"

NonStringItem(d, f) ==
  Has(d, f) /\ d[f].t = "array" /\ \E i \in 1..Len(d[f].items) : d[f].items[i].t # "string"

\* the fields of a generation output that break the AIGeneratedEmail contract
ViolatedFields(d) ==
  {f \in AIFields : ~Has(d, f)}
  \cup {f \in {"tone"} : Has(d, f) /\ ~(d[f].t = "string" /\ d[f].s \in Tones)}
  \cup {f \in {"confidence"} :
          Has(d, f) /\ ~(d[f].t = "number" /\ d[f].n >= 0 /\ d[f].n <= 100)}
  \cup {f \in {"personalizationNotes", "validationErrors"} : NonStringItem(d, f)}

Lists(errors, f) == \E i \in 1..Len(errors) : errors[i].field[1] = f

\* the generation collaborator answered with data that breaks the contract
BrokenOutput(call) ==
  /\ call.ai # None /\ call.ai # MockAI /\ call.ai.success
  /\ ViolatedFields(call.ai.data) # {}

\* C8: when the generation output misses a required field, has a tone outside
\* the enumeration, a confidence outside [0,1] or a non-string element in
\* personalizationNotes or validationErrors, generateEmailDraft persists no
\* draft, does not advance the stage, and returns a failure listing an error
\* for each offending field.
C8_InvalidOutputNeverPersisted ==
  [][(/\ calls' = calls + 1
      /\ lastCall'.op = "generateEmailDraft"
      /\ BrokenOutput(lastCall'))
     => (/\ emails' = emails
         /\ workflows' = workflows
         /\ IsFailure(lastCall'.result)
         /\ Has(lastCall'.result, "errors")
         /\ lastCall'.result.errors # <<>>
         /\ lastCall'.ai.data # Undefined =>
               \A f \in ViolatedFields(lastCall'.ai.data) :
                  Lists(lastCall'.result.errors, f))]_vars

C8_Witness ==
  /\ IsGenerate /\ BrokenOutput(lastCall)
  /\ "confidence" \in ViolatedFields(lastCall.ai.data)
  /\ Has(lastCall.ai.data, "confidence")
  /\ IsFailure(lastCall.result)

\* C9: for an organisation with a non-empty id and name and a well-formed
\* e-mail address, a successful initiateOutreach followed directly by
\* generateEmailDraft on the returned workflow id produces a persisted draft
\* with status "draft" addressed to that organisation; no other operation is
\* needed in between.
C9_InitiateThenGenerateDrafts ==
  [][(/\ lastCall.op = "initiateOutreach"
      /\ IsSuccess(lastCall.result)
      /\ isValidEmail(lastCall.ngoProfile.email)
      /\ calls' = calls + 1
      /\ lastCall'.op = "generateEmailDraft"
      /\ lastCall'.workflowId = lastCall.result.workflowId)
     => (/\ IsSuccess(lastCall'.result)
         /\ LET d == emails'[lastCall'.result.draftEmail.id]
            IN /\ d # None
               /\ d.status = "draft"
               /\ d.recipientEmail = lastCall.ngoProfile.email)]_vars

\* C10: when generateEmailDraft returns success the persisted workflow is in
\* stage draft_generation and its data holds the id of the draft; no success is
\* returned when the stage update was not persisted.
C10_SuccessImpliesStageAdvanced ==
  (IsGenerate /\ IsSuccess(lastCall.result)) =>
     LET w == workflows[lastCall.workflowId]
     IN /\ w.stage = "draft_generation"
        /\ Has(w.data, "draftEmailId")
        /\ w.data.draftEmailId = lastCall.result.draftEmail.id

\* ==== Properties of the workflow stage machine ==============================

\* the workflows of the engagement a stored e-mail belongs to
WorkflowsOf(emailId) ==
  {w \in WorkflowIds :
     /\ workflows[w] # None
     /\ workflows[w].ngoId = emails[emailId].ngoId
     /\ workflows[w].campaignId = emails[emailId].campaignId}

\* C11: after sendEmailWithApproval dispatches successfully the persisted
\* stage of the engagement's workflow has advanced (through user_review,
\* approval_pending and sending) to completed; after a failed dispatch it is
\* failed.
C11_DispatchDrivesStage ==
  /\ (IsSend /\ lastCall.path = "dispatched") =>
        \A w \in WorkflowsOf(lastCall.emailId) : workflows[w].stage = "completed"
  /\ (IsSend /\ lastCall.path = "send_failed") =>
        \A w \in WorkflowsOf(lastCall.emailId) : workflows[w].stage = "failed"

\* ==== Properties of initiateOutreach =========================================

IsInitiate == lastCall.op = "initiateOutreach"

\* C12: whenever initiateOutreach returns success with workflow id w, the store
\* holds a WorkflowState with id w, stage initial_research, the campaign id of
\* the call and the id of the organisation, as getWorkflowState(w) returns it.
C12_SuccessImpliesWorkflowStored ==
  (IsInitiate /\ IsSuccess(lastCall.result)) =>
     LET w == Get(workflows, lastCall.result.workflowId)
     IN /\ w # None
        /\ w.id = lastCall.result.workflowId
        /\ w.stage = "initial_research"
        /\ w.campaignId = lastCall.campaignId
        /\ w.ngoId = lastCall.ngoProfile.id

C12_Witness ==
  /\ IsInitiate /\ IsSuccess(lastCall.result)
  /\ Get(workflows, lastCall.result.workflowId) # None

\* C13: initiateOutreach on an organisation whose id, email or name is empty
\* or missing returns a failure and creates no WorkflowState; when the store
\* write reports failure it returns a failure with the store's error and no
\* workflow id.
C13_InvalidOrFailedInitiate ==
  [][(calls' = calls + 1 /\ lastCall'.op = "initiateOutreach") =>
       /\ (\E f \in {"id", "email", "name"} : Falsy(lastCall'.ngoProfile, f)) =>
             /\ IsFailure(lastCall'.result)
             /\ workflows' = workflows
       /\ lastCall'.path = "save_failed" =>
             /\ lastCall'.result = Failure("store error")
             /\ ~Has(lastCall'.result, "workflowId")]_vars

C13_WitnessMissingEmail ==
  /\ IsInitiate /\ ~Has(lastCall.ngoProfile, "email")
  /\ IsFailure(lastCall.result)

\* ==== Properties of the stored records ======================================

\* C14: a DraftEmail is created with status draft, stays draft until a
\* successful dispatch of that e-mail, becomes sent only through such a
\* dispatch, and once sent is never changed by any workflow operation.
C14_StatusOnlyMovesForward ==
  [][\A e \in EmailIds :
       /\ (emails[e] = None /\ emails'[e] # None) =>
             /\ emails'[e].status = "draft"
             /\ lastCall'.op = "generateEmailDraft"
       /\ emails[e] # None =>
             /\ emails'[e] # None
             /\ emails[e].status = "sent" => emails'[e] = emails[e]
             /\ (emails[e].status = "draft" /\ emails'[e].status # "draft") =>
                   /\ emails'[e].status = "sent"
                   /\ lastCall'.op = "sendEmailWithApproval"
                   /\ lastCall'.emailId = e
                   /\ lastCall'.path = "dispatched"]_vars

C14_Witness ==
  /\ IsSend /\ lastCall.statusBefore = "sent"
  /\ emails[lastCall.emailId].status = "sent"
  /\ transportCalls[lastCall.emailId] = 1

\* C15: a stored UserApproval is immutable: once an approval with id a is
\* persisted, no later operation, including recordApproval with the same id
\* and other field values, changes the stored record for a.
C15_StoredApprovalImmutable ==
  [][\A a \in ApprovalIds : approvals[a] # None => approvals'[a] = approvals[a]]_vars

IsRecord == lastCall.op = "recordApproval"

\* the approval carries every required field and a resource type of the enumeration
Conforms(a) ==
  /\ \A i \in 1..Len(ApprovalRequired) : Has(a, ApprovalRequired[i])
  /\ a.resourceType \in {"email", "campaign", "outreach_batch"}

\* C16: recordApproval persists the approval and returns success exactly when
\* it carries all required fields and a resourceType among email, campaign,
\* outreach_batch, whether or not resourceId names a stored e-mail; otherwise
\* it returns a failure with the field errors and stores nothing.
C16_RecordExactlyWhenConforming ==
  [][(/\ calls' = calls + 1
      /\ lastCall'.op = "recordApproval"
      /\ lastCall'.approval # Undefined)
     => IF Conforms(lastCall'.approval)
        THEN /\ IsSuccess(lastCall'.result)
             /\ approvals'[lastCall'.approval.id] = lastCall'.approval
        ELSE /\ IsFailure(lastCall'.result)
             /\ Has(lastCall'.result, "errors") /\ lastCall'.result.errors # <<>>
             /\ approvals' = approvals]_vars

\* ==== ReachOutWorkflow.getAdvisoryRiskAssessment ============================

NoControversy == "No known controversies"

\* stored profiles over the range of risk data: unset, 0, low, high, 100
RiskProfileInputs ==
  UNION {{Restrict(ValidOrg(i), {"id", "name", "email"}),
          [ValidOrg(i) EXCEPT !.riskScore = 0],
          ValidOrg(i),
          [id |-> i, name |-> "NGO", email |-> GoodEmail, riskScore |-> 95,
           controversySummary |-> "lawsuit"],
          [id |-> i, name |-> "NGO", email |-> GoodEmail, riskScore |-> 100,
           controversySummary |-> ""],
          [ValidOrg(i) EXCEPT !.riskScore = 50],
          [ValidOrg(i) EXCEPT !.riskScore = 100]} : i \in OrgIds}

OrgRefs == 1..(MaxOrgs + 1)

\* Variant: a high score clears the advisory flag.
AssessmentGatingHighRisk(ngoId) ==
  LET p == Get(ngoProfiles, ngoId)
  IN IF p = None THEN None
     ELSE [ngoId |-> ngoId,
           riskScore |-> IF Has(p, "riskScore") THEN p.riskScore ELSE 0,
           controversySummary |->
             IF Has(p, "controversySummary") /\ p.controversySummary # ""
             THEN p.controversySummary ELSE NoControversy,
           sources |-> <<>>, issueClusters |-> <<>>,
           advisoryOnly |-> ~(Has(p, "riskScore") /\ p.riskScore > 90),
           lastAssessedAt |-> Stamp]

\* the assessment built from the stored profile, or null
RiskAssessmentOf(ngoId) ==
  LET p == Get(ngoProfiles, ngoId)
  IN IF p = None THEN None
     ELSE [ngoId |-> ngoId,
           \* ngoProfile.riskScore || 0
           riskScore |-> IF Has(p, "riskScore") THEN p.riskScore ELSE 0,
           \* ngoProfile.controversySummary || 'No known controversies'
           controversySummary |->
             IF Has(p, "controversySummary") /\ p.controversySummary # ""
             THEN p.controversySummary ELSE NoControversy,
           sources |-> <<>>, issueClusters |-> <<>>,
           advisoryOnly |-> TRUE,
           lastAssessedAt |-> Stamp]

getAdvisoryRiskAssessment(ngoId) ==
  /\ calls < MaxCalls
  /\ calls' = calls + 1
  /\ lastCall' = [op |-> "getAdvisoryRiskAssessment", ngoId |-> ngoId,
                  result |-> RiskAssessmentOf(ngoId)]
  /\ UNCHANGED <<workflows, ngoProfiles, emails, approvals, idempotencyKeys,
                 sentEmails, now, transportCalls, sendCalls, allValid, prevSendFailed>>

NextRisk ==
  \/ \E p \in RiskProfileInputs : saveNGOProfile(p) /\ OthersIdle
  \/ \E n \in OrgRefs : getAdvisoryRiskAssessment(n) /\ OthersIdle
  \/ Tick /\ OthersIdle

SpecRisk == Init /\ [][NextRisk]_vars

IsAssess == lastCall.op = "getAdvisoryRiskAssessment"

\* C17: getAdvisoryRiskAssessment returns null exactly when the organisation
\* is not in the store; for a stored organisation, whatever its riskScore
\* (0..100 or unset), it returns an assessment with advisoryOnly = true and the
\* organisation's riskScore, 0 when unset.
C17_AssessmentIsAdvisory ==
  IsAssess =>
    IF lastCall.ngoId \in OrgIds /\ ngoProfiles[lastCall.ngoId] # None
    THEN /\ lastCall.result # None
         /\ lastCall.result.advisoryOnly
         /\ lastCall.result.ngoId = lastCall.ngoId
         /\ lastCall.result.riskScore =
              IF Has(ngoProfiles[lastCall.ngoId], "riskScore")
              THEN ngoProfiles[lastCall.ngoId].riskScore ELSE 0
    ELSE lastCall.result = None

C17_Witness ==
  /\ IsAssess /\ lastCall.result # None
  /\ lastCall.result.riskScore = 95 /\ lastCall.result.advisoryOnly

\* ==== Two runs that differ only in risk data ================================
\* The first run performs up to MaxScript operations with the mock services
\* and records them; the second run starts from the empty store and performs
\* the same operations with every organisation's riskScore and
\* controversySummary exchanged for the other variant.

LowRisk(i) == ValidOrg(i)
HighRisk(i) ==
  [id |-> i, name |-> "NGO", email |-> GoodEmail, riskScore |-> 95,
   controversySummary |-> "lawsuit"]

OtherRisk(p) == IF Has(p, "controversySummary") THEN LowRisk(p.id) ELSE HighRisk(p.id)

Commands ==
  {[op |-> "saveNGOProfile", org |-> p] : p \in {LowRisk(1), HighRisk(1)}}
  \cup {[op |-> "initiateOutreach", org |-> p] : p \in {LowRisk(1), HighRisk(1), LowRisk(0)}}
  \cup {[op |-> "generateEmailDraft", workflowId |-> w] : w \in WorkflowRefs}
  \cup {[op |-> "recordApproval", approval |-> a] :
          a \in {EmailApproval(1, 1, 0), Restrict(EmailApproval(1, 1, 0), {})}}
  \cup {[op |-> "sendEmailWithApproval", emailId |-> e, approval |-> a] :
          e \in ResourceIds,
          a \in {EmailApproval(1, 1, 0), Restrict(EmailApproval(1, 1, 0), {})}}

Relabel(cmd) == IF Has(cmd, "org") THEN [cmd EXCEPT !.org = OtherRisk(@)] ELSE cmd

Do(cmd) ==
  \/ cmd.op = "saveNGOProfile" /\ saveNGOProfile(cmd.org)
  \/ cmd.op = "initiateOutreach" /\ \E c \in CampaignIds : initiateOutreach(c, cmd.org, TRUE)
  \/ cmd.op = "generateEmailDraft" /\ generateEmailDraft(cmd.workflowId, MockAI, TRUE, TRUE)
  \/ cmd.op = "recordApproval" /\ recordApproval(cmd.approval, TRUE)
  \/ cmd.op = "sendEmailWithApproval"
       /\ sendEmailWithApproval(cmd.emailId, cmd.approval, TRUE, TRUE)

\* what a caller and the store show after an operation, risk data aside
Observation(call, wf, em, tc) ==
  [result |-> call.result,
   stages |-> [w \in DOMAIN wf |-> IF wf[w] = None THEN "none" ELSE wf[w].stage],
   statuses |-> [e \in DOMAIN em |-> IF em[e] = None THEN "none" ELSE em[e].status],
   dispatches |-> tc]

FirstRunStep ==
  /\ run = 1 /\ Len(script) < MaxScript
  /\ \E cmd \in Commands :
       /\ Do(cmd)
       /\ script' = Append(script, cmd)
  /\ obs1' = Append(obs1, Observation(lastCall', workflows', emails', transportCalls'))
  /\ UNCHANGED <<run, obs2>>
  /\ ContactsIdle /\ SearchIdle

\* resetMockDatabase(): the second run starts from the empty store
Restart ==
  /\ run = 1 /\ script # <<>>
  /\ run' = 2
  /\ workflows' = [i \in WorkflowIds |-> None]
  /\ ngoProfiles' = [i \in OrgIds |-> None]
  /\ emails' = [i \in EmailIds |-> None]
  /\ approvals' = [i \in ApprovalIds |-> None]
  /\ idempotencyKeys' = [i \in EmailIds |-> None]
  /\ sentEmails' = [i \in EmailIds |-> 0]
  /\ transportCalls' = [i \in EmailIds |-> 0]
  /\ sendCalls' = [i \in EmailIds |-> 0]
  /\ allValid' = [i \in EmailIds |-> TRUE]
  /\ prevSendFailed' = [i \in EmailIds |-> FALSE]
  /\ calls' = 0
  /\ lastCall' = [op |-> "none"]
  /\ UNCHANGED <<now, script, obs1, obs2>>
  /\ ContactsIdle /\ SearchIdle

SecondRunStep ==
  /\ run = 2 /\ Len(obs2) < Len(script)
  /\ Do(Relabel(script[Len(obs2) + 1]))
  /\ obs2' = Append(obs2, Observation(lastCall', workflows', emails', transportCalls'))
  /\ UNCHANGED <<script, run, obs1>>
  /\ ContactsIdle /\ SearchIdle

NextTwoRuns == FirstRunStep \/ Restart \/ SecondRunStep

SpecTwoRuns == Init /\ [][NextTwoRuns]_vars

\* C18: two runs that differ only in an organisation's riskScore and
\* controversySummary give, operation by operation, the same results, the
\* same workflow stages, the same draft statuses and the same dispatches.
C18_RiskDoesNotInterfere ==
  \A i \in 1..Len(obs2) : obs2[i] = obs1[i]

C18_Witness ==
  /\ run = 2 /\ Len(obs2) = MaxScript
  /\ obs2[Len(obs2)].dispatches[1] = 1
  /\ ngoProfiles[1] = HighRisk(1)

\* ==== MockHubSpotService.createContactIfNotExists ===========================
\* A call returns at once when the e-mail is missing; otherwise it awaits a
\* delay, and the lookup and the insert that follow run without another await.

ContactInputs ==
  {[email |-> "a@x.org", firstName |-> "Test"],
   [email |-> "a@x.org", firstName |-> "Modified"],
   [email |-> "b@x.org"],
   [email |-> "", firstName |-> "Test"],
   [firstName |-> "Test"]}

\* Variant: the lookup compares the stored id with the e-mail and never matches.
FindByIdInsteadOfEmail(email) == None

\* for (const existingContact of contacts.values()) if (existingContact.email === email)
FindContact(email) ==
  LET found == {i \in ContactIds : contacts[i] # None /\ contacts[i].email = email}
  IN IF found = {} THEN None
     ELSE contacts[CHOOSE i \in found : \A j \in found : i <= j]

NewContact(input, id) ==
  Spread(Restrict(input, DOMAIN input \cap {"firstName", "lastName", "company", "phone"}),
         [id |-> id, email |-> input.email, properties |-> <<>>,
          createdAt |-> Stamp, updatedAt |-> Stamp])

\* the synchronous part of the call, up to the first await
BeginCreateContact(c, input) ==
  /\ contactCalls[c].pc # "waiting"
  /\ contactCalls' =
       [contactCalls EXCEPT ![c] =
          IF ~Has(input, "email") \/ input.email = ""
          THEN [pc |-> "done", contact |-> input,
                result |-> [success |-> FALSE, isNew |-> FALSE,
                            error |-> "Email is required to create a contact"]]
          ELSE [pc |-> "waiting", contact |-> input]]
  /\ UNCHANGED contacts

\* the part of the call after the await: lookup, then insert
ResumeCreateContact(c) ==
  LET input == contactCalls[c].contact
      existing == FindContact(input.email)
      newContact == NewContact(input, Fresh(contacts))
  IN
  /\ contactCalls[c].pc = "waiting"
  /\ existing = None => Unused(contacts) # {}
  /\ contacts' = IF existing = None
                 THEN [contacts EXCEPT ![newContact.id] = newContact]
                 ELSE contacts
  /\ contactCalls' =
       [contactCalls EXCEPT ![c] =
          [pc |-> "done", contact |-> input,
           result |-> IF existing = None
                      THEN [success |-> TRUE, contact |-> newContact, isNew |-> TRUE]
                      ELSE [success |-> TRUE, contact |-> existing, isNew |-> FALSE]]]

NextContacts ==
  \/ \E c \in Callers, input \in ContactInputs :
        BeginCreateContact(c, input) /\ UNCHANGED senders /\ StoresIdle /\ SearchIdle /\ OneRun
  \/ \E c \in Callers :
        ResumeCreateContact(c) /\ UNCHANGED senders /\ StoresIdle /\ SearchIdle /\ OneRun

SpecContacts == Init /\ [][NextContacts]_vars

HoldersOf(store, email) == {i \in ContactIds : store[i] # None /\ store[i].email = email}

\* C19: createContactIfNotExists is a lookup-or-insert under any interleaving
\* of calls: the store holds at most one contact per e-mail, a call for an
\* e-mail not yet stored creates the contact with isNew = true, a call for a
\* stored e-mail returns that stored contact with isNew = false, no call
\* changes an existing contact, and a call without e-mail fails and changes
\* nothing.
C19_LookupOrInsert ==
  [][/\ \A i \in ContactIds : contacts[i] # None => contacts'[i] = contacts[i]
     /\ \A i, j \in ContactIds :
          (i # j /\ contacts'[i] # None /\ contacts'[j] # None) =>
             contacts'[i].email # contacts'[j].email
     /\ \A c \in Callers :
          (/\ contactCalls[c].pc # "waiting" /\ contactCalls'[c].pc = "done"
           /\ contactCalls'[c] # contactCalls[c]) =>
             /\ ~contactCalls'[c].result.success
             /\ contacts' = contacts
     /\ \A c \in Callers :
          (contactCalls[c].pc = "waiting" /\ contactCalls'[c].pc = "done") =>
             LET input == contactCalls[c].contact
                 held == HoldersOf(contacts, input.email)
                 r == contactCalls'[c].result
             IN /\ r.success
                /\ r.isNew = (held = {})
                /\ held # {} => (r.contact \in {contacts[i] : i \in held}
                                 /\ contacts' = contacts)
                /\ held = {} =>
                     /\ contacts[r.contact.id] = None
                     /\ contacts'[r.contact.id] = r.contact
                     /\ r.contact.email = input.email
                     /\ Has(input, "firstName") =>
                          r.contact.firstName = input.firstName]_vars

\* a second call for a stored e-mail, carrying another first name, got the
\* contact as the first call created it
C19_Witness ==
  /\ \A c \in Callers : contactCalls[c].pc = "done" /\ contactCalls[c].result.success
  /\ contactCalls[1].result.isNew /\ ~contactCalls[2].result.isNew
  /\ contactCalls[2].contact = [email |-> "a@x.org", firstName |-> "Modified"]
  /\ contactCalls[2].result.contact = contactCalls[1].result.contact
  /\ contactCalls[1].contact = [email |-> "a@x.org", firstName |-> "Test"]

\* ==== BriefProcessor ========================================================
\* A text is a sequence of characters. The alphabet has one lower-case letter,
\* one upper-case letter, one digit, the full stop, the space and the newline;
\* it has no tab, bracket, dash or smart-punctuation character, so the
\* replacements of cleanText that only touch those leave every text alone.

Lower == {"a"}
Upper == {"A"}
Digit == {"1"}
Whitespace == {" ", "\n"}
Alphabet == Lower \cup Upper \cup Digit \cup Whitespace \cup {"."}

TextsUpTo(n) == UNION {[1..k -> Alphabet] : k \in 0..n}

\* the characters /\s/ matches
IsSpace(c) == c \in Whitespace

RECURSIVE SkipSpace(_)
SkipSpace(text) ==
  IF text # <<>> /\ IsSpace(Head(text)) THEN SkipSpace(Tail(text)) ELSE text

\* String.prototype.trim
RECURSIVE trim(_)
trim(text) ==
  IF text = <<>> THEN <<>>
  ELSE IF IsSpace(Head(text)) THEN trim(Tail(text))
  ELSE IF IsSpace(text[Len(text)]) THEN trim(SubSeq(text, 1, Len(text) - 1))
  ELSE text

\* replace(/\s+/g, ' ')
RECURSIVE CollapseSpace(_)
CollapseSpace(text) ==
  IF text = <<>> THEN <<>>
  ELSE IF IsSpace(Head(text)) THEN <<" ">> \o CollapseSpace(SkipSpace(text))
  ELSE <<Head(text)>> \o CollapseSpace(Tail(text))

\* replace(/\n\s*\n/g, '\n\n')
RECURSIVE CollapseBlankLines(_)
CollapseBlankLines(text) ==
  IF text = <<>> THEN <<>>
  ELSE LET rest == Tail(text)
           spaces == Len(rest) - Len(SkipSpace(rest))
           breaks == {j \in 1..spaces : rest[j] = "\n"}
       IN IF Head(text) = "\n" /\ breaks # {}
          THEN LET last == CHOOSE j \in breaks : \A k \in breaks : k <= j
               IN <<"\n", "\n">> \o CollapseBlankLines(SubSeq(rest, last + 1, Len(rest)))
          ELSE <<Head(text)>> \o CollapseBlankLines(rest)

\* replace(/\n\s+/g, '\n')
RECURSIVE DropSpaceAfterNewline(_)
DropSpaceAfterNewline(text) ==
  IF text = <<>> THEN <<>>
  ELSE IF Head(text) = "\n" THEN <<"\n">> \o DropSpaceAfterNewline(SkipSpace(Tail(text)))
  ELSE <<Head(text)>> \o DropSpaceAfterNewline(Tail(text))

\* replace(/[^\w\s.,!?;:()[\]{}"']/g, '')
StripDisallowed(text) ==
  SelectSeq(text, LAMBDA c : c \in Lower \cup Upper \cup Digit \cup Whitespace \cup {"."})

\* replace(/\s*([.,!?;:])\s*/g, '$1 ')
RECURSIVE SpacePunctuation(_)
SpacePunctuation(text) ==
  IF text = <<>> THEN <<>>
  ELSE LET ahead == SkipSpace(text)
       IN IF ahead # <<>> /\ Head(ahead) = "."
          THEN <<".", " ">> \o SpacePunctuation(SkipSpace(Tail(ahead)))
          ELSE <<Head(text)>> \o SpacePunctuation(Tail(text))

\* replace(/([.!?])\s*([A-Z])/g, '$1 $2')
RECURSIVE SentenceSpacing(_)
SentenceSpacing(text) ==
  IF text = <<>> THEN <<>>
  ELSE LET ahead == SkipSpace(Tail(text))
       IN IF Head(text) = "." /\ ahead # <<>> /\ Head(ahead) \in Upper
          THEN <<".", " ", Head(ahead)>> \o SentenceSpacing(Tail(ahead))
          ELSE <<Head(text)>> \o SentenceSpacing(Tail(text))

cleanText(text) ==
  LET spaced == CollapseSpace(text)
      lined == DropSpaceAfterNewline(CollapseBlankLines(spaced))
      punctuated == SpacePunctuation(StripDisallowed(lined))
  IN SentenceSpacing(trim(punctuated))

\* text.split('\n'): the text of no characters is one empty line
RECURSIVE SplitLines(_, _)
SplitLines(text, line) ==
  IF text = <<>> THEN <<line>>
  ELSE IF Head(text) = "\n" THEN <<line>> \o SplitLines(Tail(text), <<>>)
  ELSE SplitLines(Tail(text), Append(line, Head(text)))

RECURSIVE SkipDigits(_)
SkipDigits(text) ==
  IF text # <<>> /\ Head(text) \in Digit THEN SkipDigits(Tail(text)) ELSE text

\* /^\d+\.\s/
IsNumberedDot(line) ==
  LET after == SkipDigits(line)
  IN Len(after) < Len(line) /\ Len(after) >= 2 /\ after[1] = "." /\ IsSpace(after[2])

\* /^[•\-\*]\s/ needs a character the alphabet lacks
isBulletPoint(line) == IsNumberedDot(line)

\* /^\d+\)\s/ needs a character the alphabet lacks
isNumberedList(line) == IsNumberedDot(line)

isHeading(line) ==
  Len(line) < 50 /\ Len(line) > 3 /\ \A i \in 1..Len(line) : line[i] \notin Lower

isCompleteSentence(line) ==
  LET t == trim(line) IN t # <<>> /\ t[Len(t)] = "." /\ Len(t) > 5

RECURSIVE SkipStops(_)
SkipStops(text) ==
  IF text # <<>> /\ Head(text) = "." THEN SkipStops(Tail(text)) ELSE text

\* one TextSegment per run of sentence-ending punctuation, kept when the
\* trimmed text before and including the run has more than 5 characters
RECURSIVE extractSentences(_, _)
extractSentences(text, current) ==
  IF text = <<>> THEN <<>>
  ELSE IF Head(text) = "."
    THEN LET after == SkipStops(text)
             sentence == trim(current \o SubSeq(text, 1, Len(text) - Len(after)))
         IN (IF Len(sentence) > 5 THEN <<[text |-> sentence, type |-> "sentence"]>> ELSE <<>>)
              \o extractSentences(after, <<>>)
    ELSE extractSentences(Tail(text), Append(current, Head(text)))

LineType(line) ==
  IF isBulletPoint(line) THEN "bullet"
  ELSE IF isNumberedList(line) THEN "numbered"
  ELSE IF isHeading(line) THEN "heading"
  ELSE IF isCompleteSentence(line) THEN "sentence"
  ELSE "paragraph"

SegmentsOfLine(line) ==
  IF LineType(line) = "paragraph" THEN extractSentences(line, <<>>)
  ELSE <<[text |-> line, type |-> LineType(line)]>>

RECURSIVE Flatten(_)
Flatten(lists) ==
  IF lists = <<>> THEN <<>> ELSE Head(lists) \o Flatten(Tail(lists))

detectStructure(text) ==
  LET lines == SplitLines(text, <<>>)
  IN Flatten([i \in 1..Len(lines) |-> SegmentsOfLine(lines[i])])

estimatedFormat(hasBulletPoints, hasNumberedList, hasMultipleParagraphs) ==
  IF hasBulletPoints /\ ~hasNumberedList /\ ~hasMultipleParagraphs THEN "list"
  ELSE IF hasNumberedList /\ ~hasBulletPoints /\ ~hasMultipleParagraphs THEN "list"
  ELSE IF hasMultipleParagraphs /\ ~hasBulletPoints /\ ~hasNumberedList THEN "paragraph"
  ELSE IF (hasBulletPoints \/ hasNumberedList) /\ hasMultipleParagraphs THEN "mixed"
  ELSE "unknown"

OfType(segs, type) == SelectSeq(segs, LAMBDA s : s.type = type)

analyzeStructure(segs) ==
  LET hasBulletPoints == OfType(segs, "bullet") # <<>>
      hasNumberedList == OfType(segs, "numbered") # <<>>
      hasMultipleParagraphs == Len(OfType(segs, "paragraph")) > 1
  IN [hasBulletPoints |-> hasBulletPoints,
      hasNumberedList |-> hasNumberedList,
      hasMultipleParagraphs |-> hasMultipleParagraphs,
      estimatedFormat |->
        estimatedFormat(hasBulletPoints, hasNumberedList, hasMultipleParagraphs)]

\* text.trim().split(/\s+/).filter(word => word.length > 0).length
RECURSIVE countWords(_)
countWords(text) ==
  LET t == SkipSpace(text)
  IN IF t = <<>> THEN 0
     ELSE LET k == CHOOSE k \in 1..Len(t) :
                     /\ \A i \in 1..k : ~IsSpace(t[i])
                     /\ k = Len(t) \/ IsSpace(t[k + 1])
          IN 1 + countWords(SubSeq(t, k + 1, Len(t)))

\* No text over the alphabet spells one of the key-information or
\* call-to-action indicators, and no sentence of a text this short has more
\* than 25 words, so those three checks come out the same for every text.
assessTextQuality(text, struct) ==
  LET short == IF countWords(text) < 10 THEN 30
               ELSE IF countWords(text) < 25 THEN 15
               ELSE IF countWords(text) > 500 THEN 10 ELSE 0
      unclear == IF struct.estimatedFormat = "unknown" THEN 20
                 ELSE IF struct.estimatedFormat = "paragraph" /\ ~struct.hasMultipleParagraphs
                   THEN 10 ELSE 0
      penalty == short + unclear + 25 + 15
  IN [score |-> IF penalty > 100 THEN 0 ELSE 100 - penalty,
      issues |-> (IF short > 0 THEN 1 ELSE 0) + (IF unclear > 0 THEN 1 ELSE 0) + 2]

TextsOf(segs) == [i \in 1..Len(segs) |-> segs[i].text]

processBrief(text) ==
  LET cleanedText == cleanText(text)
      segs == detectStructure(cleanedText)
      struct == analyzeStructure(segs)
  IN [originalText |-> text,
      cleanedText |-> cleanedText,
      sentences |-> TextsOf(OfType(segs, "sentence")),
      paragraphs |-> TextsOf(OfType(segs, "paragraph")),
      wordCount |-> countWords(cleanedText),
      structure |-> struct,
      quality |-> assessTextQuality(cleanedText, struct)]

InitBrief ==
  /\ InitStores /\ InitContacts /\ InitOneRun /\ InitNoRegistry /\ InitNoGeography
  /\ brief \in [text : TextsUpTo(MaxBrief)]
  /\ InitNoBrief

ProcessBrief ==
  /\ processed = None
  /\ processed' = processBrief(brief.text)
  /\ UNCHANGED <<registry, scores, results, brief, segments, structure,
                 mentions, geography, geographyScore>>

NextBrief == ProcessBrief /\ StoresIdle /\ ContactsIdle /\ OneRun

SpecBrief == InitBrief /\ [][NextBrief]_vars

SegmentTypes == {"sentence", "paragraph", "bullet", "numbered", "heading"}

SegmentLists ==
  UNION {[1..k -> [text : {<<"a">>}, type : SegmentTypes]] : k \in 0..MaxSegments}

InitStructure ==
  /\ InitStores /\ InitContacts /\ InitOneRun /\ InitNoRegistry /\ InitNoGeography
  /\ brief = Undefined
  /\ processed = None
  /\ segments \in SegmentLists
  /\ structure = None

AnalyzeStructure ==
  /\ structure = None
  /\ structure' = analyzeStructure(segments)
  /\ UNCHANGED <<registry, scores, results, brief, processed, segments,
                 mentions, geography, geographyScore>>

NextStructure == AnalyzeStructure /\ StoresIdle /\ ContactsIdle /\ OneRun

SpecStructure == InitStructure /\ [][NextStructure]_vars

C30_ParagraphsDetected ==
  (processed # None /\ \E i \in 2..(Len(brief.text) - 2) :
      /\ brief.text[i] = "\n" /\ brief.text[i + 1] = "\n"
      /\ \E j \in 1..(i - 1) : brief.text[j] \in Lower \cup Upper
      /\ \E j \in (i + 2)..Len(brief.text) : brief.text[j] \in Lower \cup Upper)
    => processed.paragraphs # <<>> /\ processed.structure.hasMultipleParagraphs

\* ==== searchNGOs ============================================================
\* A registry entry of the model has a name, no focus area and no geography;
\* the score the basic matching (focus area, domain, geography, organisation
\* type) gives it for the brief is an input.

TopLimit == 12
ScoreValues == {0, 5, 20}

RegistryOf(n) == [i \in 1..n |-> [id |-> i, name |-> "NGO", selectedForOutreach |-> FALSE]]

\* obj.f, undefined when obj has no such property
Prop(obj, f) == IF Has(obj, f) THEN obj[f] ELSE Undefined

ScoreOf(n) == [thrown |-> FALSE, value |-> n]
ScoreThrown == [thrown |-> TRUE, value |-> 0]

\* no alignment term occurs in the entry's name or focus areas
calculateIntentAlignment(ngo, intent) ==
  IF intent = Undefined THEN ScoreThrown ELSE ScoreOf(0)

\* no entity of the brief occurs in the entry's name or focus areas
calculateEntityMatches(ngo, entities) ==
  IF entities = Undefined THEN ScoreThrown ELSE ScoreOf(0)

\* the base score: the entry's name and focus areas select no adjustment,
\* and tone is read only inside the adjustments
calculateToneCompatibility(ngo, tone) == ScoreOf(2)

calculateGeographicEntityFit(ngo, entities) ==
  IF entities = Undefined THEN ScoreThrown
  ELSE IF entities.locations = <<>> THEN ScoreOf(1) ELSE ScoreOf(0)

calculateScopeAlignment(ngo, intent) ==
  IF intent = Undefined THEN ScoreThrown
  ELSE IF intent.scope \in {"global", "national", "local"} THEN ScoreOf(2) ELSE ScoreOf(3)

calculateEnhancedRelevanceScore(ngo, processedBrief, basic) ==
  LET intentScore == calculateIntentAlignment(ngo, Prop(processedBrief, "intent"))
      entityScore == calculateEntityMatches(ngo, Prop(processedBrief, "entities"))
      toneScore == calculateToneCompatibility(ngo, Prop(processedBrief, "tone"))
      geoEntityScore == calculateGeographicEntityFit(ngo, Prop(processedBrief, "entities"))
      scopeScore == calculateScopeAlignment(ngo, Prop(processedBrief, "intent"))
      signals == {intentScore, entityScore, toneScore, geoEntityScore, scopeScore}
  IN IF \E s \in signals : s.thrown THEN ScoreThrown
     ELSE ScoreOf(basic + intentScore.value * 20 + entityScore.value * 15
                    + toneScore.value * 10 + geoEntityScore.value * 10
                    + scopeScore.value * 5)

Scored(reg, sc) == [i \in 1..Len(reg) |-> [ngo |-> reg[i], score |-> sc[i]]]

\* one step of the stable sort with comparator b.score - a.score: the item
\* goes after every item whose score is at least its own
InsertByScore(sorted, item) ==
  LET ahead == {k \in 1..Len(sorted) : sorted[k].score >= item.score}
      n == Cardinality(ahead)
  IN SubSeq(sorted, 1, n) \o <<item>> \o SubSeq(sorted, n + 1, Len(sorted))

RECURSIVE SortByScore(_)
SortByScore(items) ==
  IF items = <<>> THEN <<>>
  ELSE InsertByScore(SortByScore(SubSeq(items, 1, Len(items) - 1)), items[Len(items)])

\* .filter(score > 0).sort(b.score - a.score).slice(0, 12).map(copy, selectedForOutreach: false)
RankRegistry(reg, sc) ==
  LET kept == SelectSeq(Scored(reg, sc), LAMBDA item : item.score > 0)
      sorted == SortByScore(kept)
      top == SubSeq(sorted, 1, IF Len(sorted) < TopLimit THEN Len(sorted) ELSE TopLimit)
  IN [k \in 1..Len(top) |-> Spread(top[k].ngo, [selectedForOutreach |-> FALSE])]

\* Variant: only the empty string counts as blank.
IsEmptyOnly(arg) == arg = Undefined \/ arg.text = <<>>

\* !brief || brief.trim().length === 0
IsBlank(arg) == arg = Undefined \/ arg.text = <<>> \/ Len(trim(arg.text)) = 0

BriefInputs ==
  {Undefined} \cup [text : {<<>>, <<" ">>, <<" ", "\n">>, <<" ", "a", " ">>,
                            <<"A", "a", ".", "\n", "\n", "a">>}]

\* the basic score of an entry exists only for a brief that gets as far as scoring
InitRegistry ==
  /\ registry = RegistryOf(MaxRegistry)
  /\ brief \in BriefInputs
  /\ scores \in IF IsBlank(brief) THEN {<<>>} ELSE [1..MaxRegistry -> ScoreValues]
  /\ results = NotSearched

\* LOCAL_NGO_DATABASE.map stops at the first entry whose scoring throws
SearchOutcome(arg, reg, basic) ==
  IF IsBlank(arg) THEN [NotSearched EXCEPT !.returned = TRUE]
  ELSE LET processedBrief == processBrief(arg.text)
           sc == [i \in 1..Len(reg) |->
                    calculateEnhancedRelevanceScore(reg[i], processedBrief, basic[i])]
           failing == {i \in 1..Len(reg) : sc[i].thrown}
       IN IF failing # {}
          THEN LET first == CHOOSE i \in failing : \A j \in failing : i <= j
               IN [NotSearched EXCEPT !.thrown = TRUE,
                                      !.scored = [i \in 1..first |-> sc[i]]]
          ELSE [NotSearched EXCEPT !.returned = TRUE,
                                   !.scored = sc,
                                   !.ngos = RankRegistry(reg, [i \in 1..Len(reg) |-> sc[i].value])]

searchNGOs ==
  /\ results = NotSearched
  /\ results' = SearchOutcome(brief, registry, scores)
  /\ UNCHANGED <<registry, scores, brief, processed, segments, structure,
                 mentions, geography, geographyScore>>

NextSearch == searchNGOs /\ StoresIdle /\ ContactsIdle /\ OneRun

InitSearch ==
  /\ InitStores /\ InitContacts /\ InitOneRun /\ InitNoBrief /\ InitNoGeography
  /\ InitRegistry

SpecSearch == InitSearch /\ [][NextSearch]_vars

\* searchNGOs has run to its end, by returning or by throwing
Searched == results.returned \/ results.thrown

\* the brief is absent, empty or made of whitespace only
BlankBrief ==
  brief = Undefined \/ \A i \in 1..Len(brief.text) : brief.text[i] \in {" ", "\n"}

\* entry i comes before entry j in the ranking
Outranks(i, j) ==
  \/ results.scored[i].value > results.scored[j].value
  \/ results.scored[i].value = results.scored[j].value /\ i < j

\* C20: for every brief that gets as far as scoring, the matcher's result is
\* exactly the registry entries whose relevance score is > 0, ordered by score
\* descending with equal scores in registry order, cut to the first 12, each a
\* copy with selectedForOutreach = false; the registry itself is not modified.
C20_RankedPositiveTopTwelve ==
  (Searched /\ ~BlankBrief) =>
    /\ results.returned
    /\ Len(results.scored) = Len(registry)
    /\ LET positive == {i \in 1..Len(registry) : results.scored[i].value > 0}
           shown == {results.ngos[k].id : k \in 1..Len(results.ngos)}
       IN /\ registry = RegistryOf(MaxRegistry)
          /\ Len(results.ngos) = IF Cardinality(positive) < 12 THEN Cardinality(positive) ELSE 12
          /\ shown \subseteq positive
          /\ \A k \in 1..Len(results.ngos) :
               results.ngos[k] = [registry[results.ngos[k].id] EXCEPT !.selectedForOutreach = FALSE]
          /\ \A k, l \in 1..Len(results.ngos) :
               k < l => Outranks(results.ngos[k].id, results.ngos[l].id)
          /\ \A i \in positive \ shown : \A j \in shown : Outranks(j, i)

\* C21: for a brief with no keyword, focus-area, geography or entity overlap
\* with any registry entry, searchNGOs returns an empty list.
C21_NoOverlapGivesEmptyList ==
  (Searched /\ ~BlankBrief /\ \A i \in 1..Len(registry) : scores[i] = 0) =>
    results.returned /\ results.ngos = <<>>

\* C22: searchNGOs first attempts the live organisation search and returns the
\* local matcher's result when that attempt throws or finds nothing; it never
\* fails because the live search failed.
C22_LiveSearchThenLocalFallback ==
  (Searched /\ ~BlankBrief) => results.liveSearch /\ results.returned

\* C23: searchNGOs called with an empty, whitespace-only or absent brief
\* returns an empty list, without throwing and without scoring any entry.
C23_BlankBriefGivesEmptyList ==
  (Searched /\ BlankBrief) =>
    results.returned /\ ~results.thrown /\ results.ngos = <<>> /\ results.scored = <<>>

\* a whitespace-only brief was searched
C23_Witness ==
  /\ Searched /\ brief = [text |-> <<" ", "\n">>]
  /\ results.returned /\ results.ngos = <<>>

\* C28: for every non-empty brief searchNGOs completes with a list and never
\* throws: the ProcessedBrief it scores with carries intent, entities and tone.
C28_SearchNeverThrows ==
  (Searched /\ ~BlankBrief) =>
    /\ results.returned /\ ~results.thrown
    /\ {"intent", "entities", "tone"} \subseteq DOMAIN processBrief(brief.text)

\* ==== calculateGeographyMatch ===============================================
\* The brief text is the set of the terms below it contains; a geography is
\* the list of lower-case terms its string splits into on spaces and commas.
\* No term is part of another, so String.includes is membership.

GeoTerms == {"usa", "united states", "america", "global", "peru", "kenya"}

GeographyInputs ==
  {Undefined} \cup [terms : {<<>>, <<"peru", "south", "america">>, <<"global">>,
                             <<"usa">>, <<"kenya">>}]

TermsOf(geo) == {geo.terms[i] : i \in 1..Len(geo.terms)}

\* the value a forEach callback returns is discarded, so the loop over the
\* geography's terms contributes nothing
calculateGeographyMatch(text, ngoGeography) ==
  IF ngoGeography = Undefined \/ ngoGeography.terms = <<>> THEN 0
  ELSE IF /\ text \cap {"usa", "united states", "america"} # {}
          /\ TermsOf(ngoGeography) \cap {"usa", "global"} # {}
    THEN 5
  ELSE IF "global" \in text /\ "global" \in TermsOf(ngoGeography) THEN 5
  ELSE 0

InitGeography ==
  /\ InitStores /\ InitContacts /\ InitOneRun /\ InitNoRegistry /\ InitNoBrief
  /\ brief = Undefined
  /\ mentions \in SUBSET GeoTerms
  /\ geography \in GeographyInputs
  /\ geographyScore = None

CalculateGeographyMatch ==
  /\ geographyScore = None
  /\ geographyScore' = [value |-> calculateGeographyMatch(mentions, geography)]
  /\ UNCHANGED <<registry, scores, results, brief, processed, segments, structure,
                 mentions, geography>>

NextGeography == CalculateGeographyMatch /\ StoresIdle /\ ContactsIdle /\ OneRun

SpecGeography == InitGeography /\ [][NextGeography]_vars

\* C26: the geography signal is positive whenever the brief mentions a term
\* contained in the organisation's geography or the geography is marked
\* Global; it is zero only when the organisation has no geography or the
\* brief mentions none of its terms.
C26_GeographySignal ==
  geographyScore # None =>
    LET given == geography # Undefined /\ geography.terms # <<>>
        shared == IF given THEN mentions \cap TermsOf(geography) ELSE {}
        global == given /\ "global" \in TermsOf(geography)
    IN /\ (shared # {} \/ global) => geographyScore.value > 0
       /\ geographyScore.value = 0 => (~given \/ shared = {})

\* ==== generateEmailDraft: what a failure leaves behind ======================

\* C25: whenever generateEmailDraft returns failure, for whatever reason, no
\* DraftEmail has been added to the store and the workflow's persisted stage
\* and data are unchanged; when the workflow or the organisation is absent the
\* generation service is not called.
C25_FailedGenerateChangesNothing ==
  [][(calls' = calls + 1 /\ lastCall'.op = "generateEmailDraft"
        /\ ~lastCall'.result.success) =>
       /\ emails' = emails
       /\ workflows' = workflows
       /\ (\/ Get(workflows, lastCall'.workflowId) = None
           \/ Get(ngoProfiles, workflows[lastCall'.workflowId].ngoId) = None)
            => lastCall'.ai = None]_vars

\* a generation that failed at saving the draft, the store still without drafts
C25_Witness ==
  /\ lastCall.op = "generateEmailDraft" /\ lastCall.path = "save_failed"
  /\ ~lastCall.result.success
  /\ \A e \in EmailIds : emails[e] = None
  /\ workflows[lastCall.workflowId].stage = "initial_research"

\* ==== sendEmailWithApproval: shape of the supplied approval =================

\* the approval names the e-mail but its approvedAt is missing or unparseable,
\* or its expiresAt is present and unparseable
Misdated(a, emailId) ==
  /\ a # Undefined /\ Has(a, "id") /\ Has(a, "resourceType") /\ Has(a, "resourceId")
  /\ a.resourceType = "email" /\ a.resourceId = emailId
  /\ \/ ~Has(a, "approvedAt")
     \/ a.approvedAt = NaT
     \/ Has(a, "expiresAt") /\ a.expiresAt = NaT

\* C29: a send whose approval matches the e-mail in id, resourceType and
\* resourceId but has no parseable approvedAt (or an unparseable expiresAt) is
\* rejected with a failure result and does not reach the mail transport.
C29_MisdatedApprovalRejected ==
  (IsSend /\ lastCall.statusBefore = "draft" /\ Misdated(lastCall.approval, lastCall.emailId))
    => (IsFailure(lastCall.result) /\ ~lastCall.invoked)

\* ==== Concurrent sendEmailWithApproval calls ================================
\* A call runs up to its next await without interruption; between two awaits
\* of one call any step of another call may run.  Each store operation and the
\* transport's completion is one step.  The collaborators are the repository's
\* MockSupabaseService and MockEmailService.

SendApprovals ==
  {EmailApproval(1, e, 0) : e \in ResourceIds}
  \cup {WithExpiry(EmailApproval(1, 1, 0), 0), Undefined}

\* the call is made: supabase.getDraftEmail(emailId) is awaited
BeginSend(c, emailId, approval) ==
  /\ senders[c].pc = "idle"
  /\ senders' = [senders EXCEPT ![c] =
                   [pc |-> "getDraftEmail", emailId |-> emailId, approval |-> approval]]
  /\ StoresIdle

\* getDraftEmail answered: the status and approval checks, then
\* supabase.getIdempotencyKey is awaited
AfterGetDraftEmail(c) ==
  LET emailId == senders[c].emailId
      approval == senders[c].approval
      path == sendEmailWithApprovalPath(emailId, approval, TRUE)
  IN
  /\ senders[c].pc = "getDraftEmail"
  /\ senders' =
       [senders EXCEPT ![c] =
          IF path \in {"idempotent", "dispatched"}
          THEN [pc |-> "getIdempotencyKey", emailId |-> emailId, approval |-> approval]
          ELSE [pc |-> "done", emailId |-> emailId, approval |-> approval,
                invoked |-> FALSE,
                result |->
                  CASE path = "not_found" -> Failure("Draft email not found")
                    [] path = "already_sent" ->
                         [success |-> TRUE, message |-> "Email already sent",
                          emailId |-> emailId]
                    [] path = "throw" -> Thrown
                    [] path = "invalid_approval" -> Failure("Invalid approval for this email")
                    [] path = "not_yet_valid" -> Failure("Approval is not yet valid")
                    [] OTHER -> Failure("Approval has expired")]]
  /\ StoresIdle

\* getIdempotencyKey answered: a completed key ends the call, otherwise
\* email.sendApprovedEmail is invoked and awaited
AfterGetIdempotencyKey(c) ==
  LET emailId == senders[c].emailId
      approval == senders[c].approval
      existingKey == idempotencyKeys[emailId]
      completed == existingKey # None /\ Has(existingKey, "completedAt")
  IN
  /\ senders[c].pc = "getIdempotencyKey"
  /\ senders' =
       [senders EXCEPT ![c] =
          IF completed
          THEN [pc |-> "done", emailId |-> emailId, approval |-> approval,
                invoked |-> FALSE,
                result |-> [success |-> TRUE, message |-> "Email already sent (idempotency)",
                            emailId |-> emailId]]
          ELSE [pc |-> "sendApprovedEmail", emailId |-> emailId, approval |-> approval]]
  /\ transportCalls' = IF completed THEN transportCalls
                       ELSE [transportCalls EXCEPT ![emailId] = @ + 1]
  /\ UNCHANGED <<workflows, ngoProfiles, emails, approvals, idempotencyKeys, sentEmails,
                 now, sendCalls, allValid, prevSendFailed, calls, lastCall>>

\* the transport finished and marked the draft sent; the key is built and
\* supabase.recordIdempotencyKey is awaited
AfterSendApprovedEmail(c) ==
  LET emailId == senders[c].emailId
      sendResult ==
        [success |-> TRUE, messageId |-> <<"mock-msg-", emailId, sentEmails[emailId] + 1>>,
         sentAt |-> Stamp]
  IN
  /\ senders[c].pc = "sendApprovedEmail"
  /\ emails' = sendApprovedEmail(emailId)
  /\ sentEmails' = [sentEmails EXCEPT ![emailId] = @ + 1]
  /\ senders' = [senders EXCEPT ![c] =
                   [pc |-> "recordIdempotencyKey", emailId |-> emailId,
                    approval |-> senders[c].approval, sendResult |-> sendResult]]
  /\ UNCHANGED <<workflows, ngoProfiles, approvals, idempotencyKeys, now, transportCalls,
                 sendCalls, allValid, prevSendFailed, calls, lastCall>>

\* the key is stored and the call returns
AfterRecordIdempotencyKey(c) ==
  LET emailId == senders[c].emailId
      sendResult == senders[c].sendResult
  IN
  /\ senders[c].pc = "recordIdempotencyKey"
  /\ idempotencyKeys' = recordIdempotencyKey(emailId, sendResult, TRUE)
  /\ senders' = [senders EXCEPT ![c] =
                   [pc |-> "done", emailId |-> emailId, approval |-> senders[c].approval,
                    invoked |-> TRUE,
                    result |-> [success |-> TRUE, emailId |-> emailId,
                                messageId |-> sendResult.messageId,
                                sentAt |-> sendResult.sentAt]]]
  /\ UNCHANGED <<workflows, ngoProfiles, emails, approvals, sentEmails, now, transportCalls,
                 sendCalls, allValid, prevSendFailed, calls, lastCall>>

NextConcurrentSend ==
  \/ saveNGOProfile(ValidOrg(1)) /\ OthersIdle
  \/ \E c \in CampaignIds : initiateOutreach(c, ValidOrg(1), TRUE) /\ OthersIdle
  \/ \E w \in WorkflowIds : generateEmailDraft(w, MockAI, TRUE, TRUE) /\ OthersIdle
  \/ Tick /\ OthersIdle
  \/ \E c \in Callers, e \in ResourceIds, a \in SendApprovals :
        BeginSend(c, e, a)
        /\ UNCHANGED <<contacts, contactCalls>> /\ SearchIdle /\ OneRun
  \/ \E c \in Callers :
        AfterGetDraftEmail(c)
        /\ UNCHANGED <<contacts, contactCalls>> /\ SearchIdle /\ OneRun
  \/ \E c \in Callers :
        AfterGetIdempotencyKey(c)
        /\ UNCHANGED <<contacts, contactCalls>> /\ SearchIdle /\ OneRun
  \/ \E c \in Callers :
        AfterSendApprovedEmail(c)
        /\ UNCHANGED <<contacts, contactCalls>> /\ SearchIdle /\ OneRun
  \/ \E c \in Callers :
        AfterRecordIdempotencyKey(c)
        /\ UNCHANGED <<contacts, contactCalls>> /\ SearchIdle /\ OneRun

SpecConcurrentSend == Init /\ [][NextConcurrentSend]_vars

\* the approval approves the e-mail at every time of the run
ApprovesThroughout(a, emailId) == \A t \in 0..MaxTime : ApprovesAt(a, emailId, t)

\* C27: under any interleaving of concurrent sendEmailWithApproval calls for
\* one DraftEmail, each carrying a valid approval, over a store whose single
\* operations are atomic, the mail transport is invoked at most once for that
\* e-mail.
C27_ConcurrentSendsInvokeTransportOnce ==
  \A e \in EmailIds :
    (\A c \in Callers :
       (senders[c].pc # "idle" /\ senders[c].emailId = e)
         => ApprovesThroughout(senders[c].approval, e))
      => transportCalls[e] <= 1

====
